---------------------------- MODULE Spec2Model ----------------------------
(***************************************************************************)
(* A model of the appointment poller and booking-session state machine of  *)
(* termin_muenchen_kvr: the BookingSessionRepository, the booking          *)
(* conversation (src/commands/booking.py), the three-step booking API      *)
(* (src/booking_api.py), the polling loop (check_and_notify) and the       *)
(* notification dispatcher.                                                *)
(***************************************************************************)
EXTENDS Integers, Sequences, FiniteSets, TLC

\* ------------------------------------------------------------------------
\* Bounds of the model
\* ------------------------------------------------------------------------
MaxEpochs == 2
MaxCycles == 5
\* The largest maxnumber of a captcha challenge.
MaxNumber == 3

\* ------------------------------------------------------------------------
\* Program constants
\* ------------------------------------------------------------------------
BOOKING_SESSION_TIMEOUT_SECONDS == 900
TOKEN_LIFETIME == 280
BOOKING_TIMEOUT == 600
MAX_CONSECUTIVE_FAILURES == 5
SWEEP_EVERY == 5

\* Every operation is keyed by the user id: the second user shows that an
\* operation on one user leaves the other user's rows alone.
Users == {1, 2}

\* Python's None for an int-valued and for a str-valued field.
None == -1
NoneStr == "None"

\* Wall-clock time advances in steps that reach each expiry instant exactly
\* (now = expires_at) and pass it.
MaxTime == MaxEpochs * BOOKING_SESSION_TIMEOUT_SECONDS

States == {"SELECTING_TIME", "ASKING_NAME", "ASKING_EMAIL", "CONFIRMING"}

VARIABLES
    now,                \* datetime.utcnow() / time.time()
    booking_sessions,   \* table booking_sessions: a set of rows
    last,               \* the last direct repository call: the row it found,
                        \* the row it was given or returned, its result
    conv,               \* ConversationHandler's state of each user
    h,                  \* the update handler in flight (confirm_booking is
                        \* the one handler with awaits between its steps)
    bot_data,           \* application.bot_data["captcha_token"]
    subscriptions,      \* table service_subscriptions: rows (user, service, office)
    date_range,         \* each user's (start_date, end_date), as a range id
    captcha_token,      \* appointment_checker.captcha_token
    token_expires_at,   \* appointment_checker.token_expires_at
    stats,              \* appointment_checker.stats
    consecutive_failures,   \* check_and_notify's local counter
    p,                  \* where check_and_notify is: pc and the targets of
                        \* the cycle still to check
    appointment_log,    \* number of rows of table appointment_logs
    active_booking_users,   \* queue_manager.active_booking_users
    notices,            \* the initial notices sent: the user, and whether the
                        \* user had a live booking session at that moment
    last_query,         \* the last available-days query: when, with which token,
                        \* in which cycle, the users sent an initial message
                        \* and those whose message was edited
    fail_run,           \* the failed checks since the last successful one,
                        \* and whether a health alert was emitted for them
    captcha,            \* the call of get_fresh_captcha_token in progress:
                        \* its stage, the challenge, the solver's number,
                        \* the stages called and what it returned
    nt                  \* the call of notify_users_of_appointment in
                        \* progress: its stage, the users still to serve,
                        \* the message ids kept, the sends and edits made

repoVars == <<booking_sessions, last>>
convVars == <<conv, h>>
subVars == <<subscriptions, date_range>>
pollVars == <<captcha_token, token_expires_at, stats, consecutive_failures, p,
              appointment_log, active_booking_users, notices, last_query,
              fail_run>>
vars == <<now, booking_sessions, last, conv, h, bot_data, subscriptions,
          date_range, captcha_token, token_expires_at, stats,
          consecutive_failures, p, appointment_log, active_booking_users,
          notices, last_query, fail_run, captcha, nt>>

\* ------------------------------------------------------------------------
\* BookingSession rows and BookingSessionRepository
\* ------------------------------------------------------------------------
NoRow == [user_id |-> None, state |-> NoneStr, captcha_token |-> None,
          timestamp |-> None, name |-> NoneStr, email |-> NoneStr,
          expires_at |-> None]

BookingSession(u, st, tok, exp) ==
    [user_id |-> u, state |-> st, captcha_token |-> tok,
     timestamp |-> None, name |-> NoneStr, email |-> NoneStr,
     expires_at |-> exp]

RowsOf(tbl, u) == {r \in tbl : r.user_id = u}

get_session(tbl, u) ==
    IF RowsOf(tbl, u) = {} THEN NoRow ELSE CHOOSE r \in RowsOf(tbl, u) : TRUE

delete_session_noop(tbl, u) == tbl

delete_session(tbl, u) ==
    IF get_session(tbl, u) # NoRow THEN tbl \ {get_session(tbl, u)} ELSE tbl

create_session_keep(tbl, u, st, tok, exp) ==
    tbl \cup {BookingSession(u, st, tok, exp)}

create_session(tbl, u, st, tok, exp) ==
    delete_session(tbl, u) \cup {BookingSession(u, st, tok, exp)}

update_session_renew(tbl, u, st, ts, nm, em) ==
    LET r == get_session(tbl, u)
        r2 == [r EXCEPT !.state = IF st # NoneStr THEN st ELSE @,
                        !.timestamp = IF ts # None THEN ts ELSE @,
                        !.name = IF nm # NoneStr THEN nm ELSE @,
                        !.email = IF em # NoneStr THEN em ELSE @,
                        !.expires_at = @ + BOOKING_SESSION_TIMEOUT_SECONDS]
    IN  IF r = NoRow THEN tbl ELSE (tbl \ {r}) \cup {r2}

\* update_session: a None argument leaves the field as it is; no row, no change.
update_session(tbl, u, st, ts, nm, em) ==
    LET r == get_session(tbl, u)
        r2 == [r EXCEPT !.state = IF st # NoneStr THEN st ELSE @,
                        !.timestamp = IF ts # None THEN ts ELSE @,
                        !.name = IF nm # NoneStr THEN nm ELSE @,
                        !.email = IF em # NoneStr THEN em ELSE @]
    IN  IF r = NoRow THEN tbl ELSE (tbl \ {r}) \cup {r2}

is_user_in_booking(tbl, u, t) ==
    LET r == get_session(tbl, u)
    IN  r # NoRow /\ ~(t > r.expires_at)

is_user_in_booking_nodelete(tbl, u, t) == tbl

\* The table after is_user_in_booking: an expired row is deleted.
is_user_in_booking_tbl(tbl, u, t) ==
    LET r == get_session(tbl, u)
    IN  IF r # NoRow /\ t > r.expires_at THEN delete_session(tbl, u) ELSE tbl

cleanup_expired_sessions_none(tbl, t) == tbl

cleanup_expired_sessions(tbl, t) == {r \in tbl : ~(r.expires_at < t)}

get_all_active_sessions(tbl, t) == {r \in tbl : r.expires_at > t}

\* ------------------------------------------------------------------------
\* Time
\* ------------------------------------------------------------------------
Tick(d) ==
    /\ now + d <= MaxTime
    /\ now' = now + d
    /\ UNCHANGED <<captcha, nt, repoVars, convVars, bot_data, subVars, pollVars>>

\* ------------------------------------------------------------------------
\* The repository driven directly (as the repository tests drive it)
\* ------------------------------------------------------------------------
\* create_session as create_booking_session calls it (state SELECTING_TIME,
\* expiry 900 s ahead) and update_session as the three conversation steps
\* call it.
\* A credential is named by the time it was obtained.
Tokens == {0, TOKEN_LIFETIME}
Timestamps == {1000}
Names == {"John Doe"}
Emails == {"a@b.de"}

UpdateArgs ==
    {[state |-> "ASKING_NAME", timestamp |-> ts, name |-> NoneStr, email |-> NoneStr]
        : ts \in Timestamps}
    \cup {[state |-> "ASKING_EMAIL", timestamp |-> None, name |-> nm, email |-> NoneStr]
        : nm \in Names}
    \cup {[state |-> "CONFIRMING", timestamp |-> None, name |-> NoneStr, email |-> em]
        : em \in Emails}

\* The record of a repository call: the row of the user found when it was made
\* (NoRow: none), the row it was given (create_session) or returned
\* (get_session), and its boolean result.
NoCall == [op |-> "none", user |-> None, prev |-> NoRow, row |-> NoRow,
           result |-> FALSE]

Call(op, u, prev, row, res) ==
    [op |-> op, user |-> u, prev |-> prev, row |-> row, result |-> res]

Has(tbl, u) == get_session(tbl, u) # NoRow

RepoCreate(u, tok) ==
    /\ booking_sessions' = create_session(booking_sessions, u, "SELECTING_TIME", tok,
                                          now + BOOKING_SESSION_TIMEOUT_SECONDS)
    /\ last' = Call("create_session", u, get_session(booking_sessions, u),
                    BookingSession(u, "SELECTING_TIME", tok,
                                   now + BOOKING_SESSION_TIMEOUT_SECONDS), TRUE)
    /\ UNCHANGED <<captcha, nt, now, convVars, bot_data, subVars, pollVars>>

RepoUpdate(u, a) ==
    /\ booking_sessions' = update_session(booking_sessions, u, a.state, a.timestamp,
                                          a.name, a.email)
    /\ last' = Call("update_session", u, get_session(booking_sessions, u), NoRow,
                    Has(booking_sessions, u))
    /\ UNCHANGED <<captcha, nt, now, convVars, bot_data, subVars, pollVars>>

RepoDelete(u) ==
    /\ booking_sessions' = delete_session(booking_sessions, u)
    /\ last' = Call("delete_session", u, get_session(booking_sessions, u), NoRow,
                    Has(booking_sessions, u))
    /\ UNCHANGED <<captcha, nt, now, convVars, bot_data, subVars, pollVars>>

RepoIsUserInBooking(u) ==
    /\ booking_sessions' = is_user_in_booking_tbl(booking_sessions, u, now)
    /\ last' = Call("is_user_in_booking", u, get_session(booking_sessions, u), NoRow,
                    is_user_in_booking(booking_sessions, u, now))
    /\ UNCHANGED <<captcha, nt, now, convVars, bot_data, subVars, pollVars>>

RepoCleanup ==
    /\ booking_sessions' = cleanup_expired_sessions(booking_sessions, now)
    /\ last' = Call("cleanup_expired_sessions", None, NoRow, NoRow,
                    booking_sessions' # booking_sessions)
    /\ UNCHANGED <<captcha, nt, now, convVars, bot_data, subVars, pollVars>>

RepoGet(u) ==
    /\ last' = Call("get_session", u, get_session(booking_sessions, u),
                    get_session(booking_sessions, u), Has(booking_sessions, u))
    /\ UNCHANGED <<captcha, nt, now, booking_sessions, convVars, bot_data, subVars, pollVars>>

\* The update handler: where it is (idle: none in flight, the fields then tell
\* of the last confirm_booking), its user, the session it read, the calls
\* book_appointment_complete made and what each returned, the outcome of the
\* booking and how the handler ended (returned END or raised).
Idle == [pc |-> "idle", user |-> None, row |-> NoRow, calls |-> <<>>,
         rsv |-> "none", upd |-> "none", pre |-> "none", result |-> "none",
         ret |-> "none", told |-> "none", token |-> None]

\* No call of get_fresh_captcha_token was made yet.
NoCaptcha == [pc |-> "idle", cycle |-> 0, maxnumber |-> 0, matches |-> {},
              number |-> 0, calls |-> <<>>, failed |-> "none", token |-> None,
              raised |-> FALSE]

\* No call of notify_users_of_appointment was made yet.
NoNotify == [pc |-> "idle", group |-> {}, todo |-> {}, message_ids |-> {},
             send_failed |-> {}, slots |-> "none",
             edits |-> [u \in Users |-> 0], edit_failed |-> {}]

\* The state after start-up: empty tables, no credential, counters at zero.
InitCommon ==
    /\ captcha = NoCaptcha
    /\ nt = NoNotify
    /\ now = 0
    /\ booking_sessions = {}
    /\ last = NoCall
    /\ conv = [u \in Users |-> "END"]
    /\ h = Idle
    /\ bot_data = None
    /\ captcha_token = None
    /\ token_expires_at = 0
    /\ stats = [total_checks |-> 0, successful_checks |-> 0, failed_checks |-> 0]
    /\ consecutive_failures = 0
    /\ p = [pc |-> "start", todo |-> {}, queries |-> 0]
    /\ appointment_log = 0
    /\ active_booking_users = [u \in Users |-> None]
    /\ notices = {}
    /\ last_query = [at |-> None, token |-> None, cycle |-> 0, sent |-> {}, edited |-> {}]
    /\ fail_run = [n |-> 0, alerted |-> FALSE]

InitRepo ==
    /\ InitCommon
    /\ subscriptions = {}
    /\ date_range = [u \in Users |-> 1]

NextRepo ==
    \/ Tick(BOOKING_SESSION_TIMEOUT_SECONDS)
    \/ \E u \in Users, tok \in Tokens : RepoCreate(u, tok)
    \/ \E u \in Users, a \in UpdateArgs : RepoUpdate(u, a)
    \/ \E u \in Users : RepoDelete(u)
    \/ \E u \in Users : RepoIsUserInBooking(u)
    \/ RepoCleanup
    \/ \E u \in Users : RepoGet(u)

SpecRepo == InitRepo /\ [][NextRepo]_vars

\* ------------------------------------------------------------------------
\* C1: after any sequence of repository calls there is at most one
\* booking-session row per user; a create_session for a user leaves exactly the
\* newly created row for that user, also when the user already had one, and a
\* get_session made right after it returns that row.
\* ------------------------------------------------------------------------
AtMostOneSessionPerUser ==
    \A u \in Users : Cardinality(RowsOf(booking_sessions, u)) <= 1

CreateSupersedes ==
    \A u \in Users, tok \in Tokens :
        RepoCreate(u, tok) =>
            RowsOf(booking_sessions', u) =
                {BookingSession(u, "SELECTING_TIME", tok,
                                now + BOOKING_SESSION_TIMEOUT_SECONDS)}

GetAfterCreate ==
    \A u \in Users :
        (RepoGet(u) /\ last.op = "create_session" /\ last.user = u) =>
            (last'.row = last.row /\ last'.row.user_id = u)

C1_AtMostOneSession ==
    /\ []AtMostOneSessionPerUser
    /\ [][CreateSupersedes /\ GetAfterCreate]_vars

\* create -> create: the second create found a different row of the user, and
\* the row it made is the user's only row.
C1_Witness ==
    /\ last.op = "create_session"
    /\ last.prev # NoRow
    /\ last.prev # last.row
    /\ RowsOf(booking_sessions, last.user) = {last.row}

\* ------------------------------------------------------------------------
\* C7: is_user_in_booking(u) returns False for a session whose expires_at is in
\* the past and deletes the row (a get_session afterwards finds nothing, with
\* no cleanup pass); for a session that has not expired it returns True and
\* leaves the table as it is.
\* ------------------------------------------------------------------------
IsUserInBookingExpiry ==
    \A u \in Users :
        RepoIsUserInBooking(u) =>
            LET r == get_session(booking_sessions, u)
            IN  /\ (r # NoRow /\ r.expires_at < now) =>
                        (~last'.result /\ get_session(booking_sessions', u) = NoRow)
                /\ (r # NoRow /\ r.expires_at >= now) =>
                        (last'.result /\ booking_sessions' = booking_sessions)

C7_IsUserInBookingExpiry == [][IsUserInBookingExpiry]_vars

\* The call found a row, reported False and the row is gone.
C7_Witness ==
    /\ last.op = "is_user_in_booking"
    /\ last.prev # NoRow
    /\ last.prev.expires_at < now
    /\ ~last.result
    /\ get_session(booking_sessions, last.user) = NoRow

\* ------------------------------------------------------------------------
\* queue_manager: the in-memory registry of users in a booking conversation
\* ------------------------------------------------------------------------
is_user_in_queue(abu, u, t) ==
    abu[u] # None /\ ~(t - abu[u] > BOOKING_TIMEOUT)

\* The registry after is_user_in_queue: a stale entry is dropped.
is_user_in_queue_abu(abu, u, t) ==
    IF abu[u] # None /\ t - abu[u] > BOOKING_TIMEOUT
    THEN [abu EXCEPT ![u] = None] ELSE abu

\* ------------------------------------------------------------------------
\* Subscription index
\* ------------------------------------------------------------------------
Services == {100, 101}
Offices == {200, 201}

\* The orders in which a select without ORDER BY may return the rows.
RECURSIVE Orders(_)
Orders(rows) ==
    IF rows = {} THEN {<<>>}
    ELSE UNION {{<<r>> \o rest : rest \in Orders(rows \ {r})} : r \in rows}

\* session.exec(select(ServiceSubscription)).all(): the rows in one order.
RECURSIVE all_subs(_)
all_subs(subs) ==
    IF subs = {} THEN <<>>
    ELSE LET r == CHOOSE x \in subs : TRUE IN <<r>> \o all_subs(subs \ {r})

\* The key f"{sub.service_id}_{sub.office_id}", which the poller splits back
\* into the two numbers (appointment_checker.py:191-193).
service_office_key(sub) == <<sub.service, sub.office>>

RECURSIVE group_by_service_office_last(_, _)
group_by_service_office_last(rows, grouped) ==
    IF rows = <<>> THEN grouped
    ELSE LET sub == Head(rows)
             key == service_office_key(sub)
         IN  group_by_service_office_last(Tail(rows),
                (key :> <<sub.user>>) @@ grouped)

\* get_all_service_subscriptions, lines 156-160: the loop over the rows, a new
\* key starts with an empty list, the row's user is appended to its key's list.
RECURSIVE group_by_service_office(_, _)
group_by_service_office(rows, grouped) ==
    IF rows = <<>> THEN grouped
    ELSE LET sub == Head(rows)
             key == service_office_key(sub)
             start == IF key \in DOMAIN grouped
                      THEN grouped
                      ELSE (key :> <<>>) @@ grouped
         IN  group_by_service_office(Tail(rows),
                [start EXCEPT ![key] = Append(@, sub.user)])

\* get_all_service_subscriptions: (service, office) -> the users subscribed;
\* the poller only iterates over the lists, which are kept as sets here.
get_all_service_subscriptions(subs) ==
    LET grouped == group_by_service_office(all_subs(subs), <<>>)
    IN  [k \in DOMAIN grouped |-> {grouped[k][i] : i \in DOMAIN grouped[k]}]

\* The date-range groups of one (service, office): one target per distinct
\* range, holding the users of that range.
date_ranges_per_user(k, users, dr) ==
    {[service |-> k[1], office |-> k[2], range |-> dr[u], users |-> {u}] : u \in users}

date_ranges(k, users, dr) ==
    {[service |-> k[1], office |-> k[2], range |-> g,
      users |-> {u \in users : dr[u] = g}] : g \in {dr[u] : u \in users}}

Targets(service_subs, dr) ==
    UNION {date_ranges(k, service_subs[k], dr) : k \in DOMAIN service_subs}

\* SubscriptionRepository.add_subscription, lines 95-116: the row of the same
\* (user, service, office) is returned if there is one, else a row is added.
add_subscription(subs, u, s, o) ==
    IF \E r \in subs : r.user = u /\ r.service = s /\ r.office = o
    THEN subs
    ELSE subs \cup {[user |-> u, service |-> s, office |-> o]}

\* remove_subscription, lines 118-126: delete where user_id and service_id match.
remove_subscription(subs, u, s) == {r \in subs : ~(r.user = u /\ r.service = s)}

\* delete_all_user_subscriptions, lines 180-188.
delete_all_user_subscriptions(subs, u) == {r \in subs : r.user # u}

\* button_callback, "selectoffice:<service>:<office>" (lines 586-596).
SelectOffice(u, s, o) ==
    /\ subscriptions' = add_subscription(subscriptions, u, s, o)
    /\ UNCHANGED <<captcha, nt, now, repoVars, convVars, bot_data, date_range, pollVars>>

\* button_callback, "unsub:<service>" (lines 639-664).
Unsub(u, s) ==
    /\ subscriptions' = remove_subscription(subscriptions, u, s)
    /\ UNCHANGED <<captcha, nt, now, repoVars, convVars, bot_data, date_range, pollVars>>

\* button_callback, "unsub_all_confirm" (lines 686-691), and /stop.
UnsubAllConfirm(u) ==
    /\ subscriptions' = delete_all_user_subscriptions(subscriptions, u)
    /\ UNCHANGED <<captcha, nt, now, repoVars, convVars, bot_data, date_range, pollVars>>

InitSubs ==
    /\ InitCommon
    /\ subscriptions = {}
    /\ date_range = [u \in Users |-> 1]

NextSubs ==
    \/ \E u \in Users, s \in Services, o \in Offices : SelectOffice(u, s, o)
    \/ \E u \in Users, s \in Services : Unsub(u, s)
    \/ \E u \in Users : UnsubAllConfirm(u)

SpecSubs == InitSubs /\ [][NextSubs]_vars

\* ------------------------------------------------------------------------
\* check_and_notify: the polling loop
\* ------------------------------------------------------------------------
\* What line 145, "await get_fresh_captcha_token()", yields: a token, None, or
\* an exception raised in the cycle body (termin_tracker.get_fresh_captcha_token
\* is a plain function, and awaiting the str or None it returns raises
\* TypeError; an awaitable refresh yields a token or None).
RefreshOutcomes == {"token", "none", "raise"}

\* What get_available_days returns: None (transport or HTTP failure), a dict
\* with errorCode, a dict with a non-empty availableDays, a non-empty list, or
\* an empty dict / empty list / dict with an empty availableDays.
DataKinds == {"none", "error", "days", "list", "nodays"}

\* send_health_alert is called when the counter has reached the threshold.
AlertDue(cf) == cf >= MAX_CONSECUTIVE_FAILURES

\* A failed check, for the run of failures: one more, alerted if an alert went out.
RunFailed(alert) == [n |-> fail_run.n + 1, alerted |-> fail_run.alerted \/ alert]
RunReset == [n |-> 0, alerted |-> FALSE]

after_exception_escapes == [pc |-> "raised", todo |-> {}, queries |-> 0]

\* Lines 310-349 (and 175-176): after a failed refresh or an exception in the
\* cycle body the loop goes to its sleep, the targets left are dropped.
after_exception == [pc |-> "sleep", todo |-> {}, queries |-> 0]

no_subscriptions_never(service_subs) == FALSE

\* Line 136, "if not service_subs": the snapshot has no key.
no_subscriptions(service_subs) == DOMAIN service_subs = {}

\* Lines 117-139: count the cycle, sweep expired sessions every 5th cycle, read
\* the subscription snapshot; an empty snapshot goes to sleep.
PollCycleStart ==
    /\ p.pc = "start"
    /\ h.pc \notin {"reserve", "update", "preconfirm"}
    /\ stats.total_checks < MaxCycles
    /\ stats' = [stats EXCEPT !.total_checks = @ + 1]
    /\ booking_sessions' =
            IF (stats.total_checks + 1) % SWEEP_EVERY = 0
            THEN cleanup_expired_sessions(booking_sessions, now)
            ELSE booking_sessions
    /\ LET service_subs == get_all_service_subscriptions(subscriptions)
       IN  IF no_subscriptions(service_subs)
           THEN p' = [pc |-> "sleep", todo |-> {}, queries |-> 0]
           ELSE p' = [pc |-> "refresh", queries |-> 0,
                      todo |-> Targets(service_subs, date_range)]
    /\ UNCHANGED <<captcha, nt, now, last, convVars, bot_data, subVars, captcha_token,
                   token_expires_at, consecutive_failures, appointment_log,
                   active_booking_users, notices, last_query, fail_run>>

failed_check_twice(st) == [st EXCEPT !.failed_checks = @ + 2]

\* Lines 150 and 312: stats["failed_checks"] += 1.
failed_check(st) == [st EXCEPT !.failed_checks = @ + 1]

\* Lines 141-187: refresh the token when time.time() >= token_expires_at.
PollRefresh(outcome) ==
    /\ p.pc = "refresh"
    /\ h.pc \notin {"reserve", "update", "preconfirm"}
    /\ IF now >= token_expires_at
       THEN CASE outcome = "token" ->
                    /\ captcha_token' = now
                    /\ token_expires_at' = now + TOKEN_LIFETIME
                    /\ p' = [p EXCEPT !.pc = "check"]
                    /\ UNCHANGED <<stats, consecutive_failures, fail_run>>
              [] outcome = "none" ->
                    /\ captcha_token' = None
                    /\ stats' = failed_check(stats)
                    /\ consecutive_failures' = consecutive_failures + 1
                    /\ fail_run' = RunFailed(AlertDue(consecutive_failures + 1))
                    /\ p' = after_exception
                    /\ UNCHANGED token_expires_at
              [] outcome = "raise" ->
                    /\ stats' = failed_check(stats)
                    /\ consecutive_failures' = consecutive_failures + 1
                    /\ fail_run' = RunFailed(AlertDue(consecutive_failures + 1))
                    /\ p' = after_exception
                    /\ UNCHANGED <<captcha_token, token_expires_at>>
       ELSE /\ outcome = "token"
            /\ p' = [p EXCEPT !.pc = "check"]
            /\ UNCHANGED <<captcha_token, token_expires_at, stats,
                           consecutive_failures, fail_run>>
    /\ UNCHANGED <<captcha, nt, now, repoVars, convVars, bot_data, subVars, appointment_log,
                   active_booking_users, notices, last_query>>

\* notify_users_of_appointment, lines 124-144: the users sent an initial
\* notice are those not in the queue.
Notified(users) == {u \in users : ~is_user_in_queue(active_booking_users, u, now)}

NoticesFor(users) ==
    {[user |-> u, live |-> is_user_in_booking(booking_sessions, u, now)] :
        u \in Notified(users)}

query_token_fresh(tok, t) == t

\* Line 224: the query is given the module's captcha_token as it is at the
\* time of the call.
query_token(tok, t) == tok

\* Lines 206-308: one target of the cycle: query, classify, count, log, notify.
PollCheck(t, data) ==
    /\ p.pc = "check"
    /\ h.pc \notin {"reserve", "update", "preconfirm"}
    /\ t \in p.todo
    /\ last_query' = [at |-> now, token |-> query_token(captcha_token, now),
                      cycle |-> stats.total_checks,
                      sent |-> IF data = "days" THEN Notified(t.users) ELSE {},
                      edited |-> IF data = "days" THEN Notified(t.users) ELSE {}]
    /\ CASE data = "error" ->
                \* errorCode: counted as failed, then the else branch of
                \* "if appointments_found" runs as well
                /\ stats' = [stats EXCEPT !.failed_checks = @ + 1,
                                          !.successful_checks = @ + 1]
                /\ consecutive_failures' = 0
                /\ fail_run' = RunFailed(FALSE)
                /\ p' = [p EXCEPT !.todo = @ \ {t}, !.queries = @ + 1]
                /\ UNCHANGED <<appointment_log, notices, bot_data>>
         [] data = "days" ->
                /\ stats' = [stats EXCEPT !.successful_checks = @ + 1]
                /\ consecutive_failures' = 0
                /\ fail_run' = RunReset
                /\ appointment_log' = appointment_log + 1
                /\ notices' = notices \cup NoticesFor(t.users)
                /\ bot_data' = captcha_token
                /\ p' = [p EXCEPT !.todo = @ \ {t}, !.queries = @ + 1]
         [] data = "list" ->
                \* counted and logged as found; data.get in
                \* notify_users_of_appointment raises on a list, and the
                \* handler of the cycle counts a failure and ends the cycle
                /\ stats' = [stats EXCEPT !.successful_checks = @ + 1,
                                          !.failed_checks = @ + 1]
                /\ consecutive_failures' = 1
                /\ fail_run' = [n |-> 1, alerted |-> AlertDue(1)]
                /\ appointment_log' = appointment_log + 1
                /\ p' = after_exception
                /\ UNCHANGED <<notices, bot_data>>
         [] data \in {"none", "nodays"} ->
                /\ stats' = [stats EXCEPT !.successful_checks = @ + 1]
                /\ consecutive_failures' = 0
                /\ fail_run' = RunReset
                /\ p' = [p EXCEPT !.todo = @ \ {t}, !.queries = @ + 1]
                /\ UNCHANGED <<appointment_log, notices, bot_data>>
    /\ active_booking_users' = active_booking_users
    /\ UNCHANGED <<captcha, nt, now, repoVars, convVars, subVars, captcha_token,
                   token_expires_at>>

\* The for loops are done: line 338-349, then sleep.
PollCycleEnd ==
    /\ p.pc = "check"
    /\ p.todo = {}
    /\ p' = [pc |-> "sleep", todo |-> {}, queries |-> 0]
    /\ UNCHANGED <<captcha, nt, now, repoVars, convVars, bot_data, subVars, captcha_token,
                   token_expires_at, stats, consecutive_failures,
                   appointment_log, active_booking_users, notices, last_query,
                   fail_run>>

\* asyncio.sleep(config.check_interval) returns: the next cycle.
PollSleep ==
    /\ p.pc = "sleep"
    /\ p' = [pc |-> "start", todo |-> {}, queries |-> 0]
    /\ UNCHANGED <<captcha, nt, now, repoVars, convVars, bot_data, subVars, captcha_token,
                   token_expires_at, stats, consecutive_failures,
                   appointment_log, active_booking_users, notices, last_query,
                   fail_run>>

PollNext ==
    \/ PollCycleStart
    \/ \E o \in RefreshOutcomes : PollRefresh(o)
    \/ \E t \in p.todo, d \in DataKinds : PollCheck(t, d)
    \/ PollCycleEnd
    \/ PollSleep

\* At start-up nobody is subscribed, or every user is (to service 100 at
\* office 200), with one date range for all or one each.
InitPoller ==
    /\ InitCommon
    /\ subscriptions \in SUBSET {[user |-> u, service |-> 100, office |-> 200] : u \in Users}
    /\ {r.user : r \in subscriptions} \in {{}, Users}
    /\ date_range \in {[u \in Users |-> 1], [u \in Users |-> u]}

NextPoller ==
    \/ Tick(BOOKING_SESSION_TIMEOUT_SECONDS)
    \/ PollNext

SpecPoller == InitPoller /\ [][NextPoller]_vars

\* The event loop keeps running the polling task: a step of the loop that can
\* be taken is taken. The users have the same date range: one target.
InitPollerLive ==
    /\ InitPoller
    /\ date_range = [u \in Users |-> 1]

SpecPollerLive == InitPollerLive /\ [][NextPoller]_vars /\ WF_vars(PollNext)

\* ------------------------------------------------------------------------
\* C11: the polling loop has no terminal state: it is always at one of its
\* steps, from a refresh or a target check (also a failed refresh or one that
\* raised) it reaches its sleep, from the sleep it comes back to the start of
\* a cycle, and a cycle that may start does start.
\* ------------------------------------------------------------------------
C11_LoopNeverTerminates ==
    /\ [](p.pc \in {"start", "refresh", "check", "sleep"})
    /\ (p.pc \in {"refresh", "check"}) ~> (p.pc = "sleep")
    /\ (p.pc = "sleep") ~> (p.pc = "start")
    /\ (p.pc = "start" /\ stats.total_checks < MaxCycles) ~> (p.pc # "start")

\* A cycle is under way after failed ones.
C11_Witness ==
    /\ p.pc = "refresh"
    /\ consecutive_failures >= 2
    /\ stats.failed_checks >= 2

\* ------------------------------------------------------------------------
\* termin_tracker: get_fresh_captcha_token and its three stages
\* ------------------------------------------------------------------------
\* A challenge as the solver sees it: maxnumber, and the numbers n for which
\* sha256(f"{salt}{n}") equals the challenge (none, one or several, below
\* maxnumber or not).
Challenges == [maxnumber : 0..MaxNumber, matches : SUBSET (0..MaxNumber)]

\* get_captcha_challenge returned None (api_client.get failed).
NoChallenge == [maxnumber |-> None, matches |-> {}]

\* What captcha-verify answers: nothing (the post failed), a result without
\* meta.success or data.valid, a result with both and a token, a result with
\* both and no token.
VerifyOutcomes == {"none", "rejected", "token", "no_token"}

hash_matches_never(number, matches) == FALSE

\* Lines 51-56: hashlib.sha256(f"{salt}{number}").hexdigest() == challenge.
hash_matches(number, matches) == number \in matches

\* get_fresh_captcha_token is called (lines 112-117).
GetFreshCaptchaToken ==
    /\ captcha.pc \in {"idle", "done"}
    /\ captcha' = [NoCaptcha EXCEPT !.pc = "challenge", !.cycle = stats.total_checks]
    /\ UNCHANGED <<nt, now, repoVars, convVars, bot_data, subVars, pollVars>>

\* Step 1, lines 119-123: get_captcha_challenge.
GetCaptchaChallenge(challenge) ==
    /\ captcha.pc = "challenge"
    /\ captcha' =
            IF challenge = NoChallenge
            THEN [captcha EXCEPT !.pc = "done", !.failed = "challenge",
                                 !.calls = Append(@, "get_captcha_challenge")]
            ELSE [captcha EXCEPT !.pc = "solve",
                                 !.maxnumber = challenge.maxnumber,
                                 !.matches = challenge.matches,
                                 !.number = 0,
                                 !.calls = Append(@, "get_captcha_challenge")]
    /\ UNCHANGED <<nt, now, repoVars, convVars, bot_data, subVars, pollVars>>

\* Step 2, solve_captcha_challenge, lines 50-77: one pass of
\* "for number in range(maxnumber)", or the end of the range.
SolveCaptchaChallenge ==
    /\ captcha.pc = "solve"
    /\ captcha' =
            IF captcha.number < captcha.maxnumber
            THEN IF hash_matches(captcha.number, captcha.matches)
                 THEN [captcha EXCEPT !.pc = "verify",
                                      !.calls = Append(@, "solve_captcha_challenge")]
                 ELSE [captcha EXCEPT !.number = @ + 1]
            ELSE [captcha EXCEPT !.pc = "done", !.failed = "solve",
                                 !.calls = Append(@, "solve_captcha_challenge")]
    /\ UNCHANGED <<nt, now, repoVars, convVars, bot_data, subVars, pollVars>>

\* Step 3, verify_captcha_solution, lines 80-109; token[:50] on a result
\* without token raises TypeError, which nothing in the flow catches.
VerifyCaptchaSolution(result) ==
    /\ captcha.pc = "verify"
    /\ captcha' =
            CASE result = "token" ->
                    [captcha EXCEPT !.pc = "done", !.token = now,
                                    !.calls = Append(@, "verify_captcha_solution")]
              [] result = "no_token" ->
                    [captcha EXCEPT !.pc = "done", !.failed = "verify",
                                    !.raised = TRUE,
                                    !.calls = Append(@, "verify_captcha_solution")]
              [] result \in {"none", "rejected"} ->
                    [captcha EXCEPT !.pc = "done", !.failed = "verify",
                                    !.calls = Append(@, "verify_captcha_solution")]
    /\ UNCHANGED <<nt, now, repoVars, convVars, bot_data, subVars, pollVars>>

CaptchaNext ==
    \/ GetFreshCaptchaToken
    \/ \E ch \in Challenges \cup {NoChallenge} : GetCaptchaChallenge(ch)
    \/ SolveCaptchaChallenge
    \/ \E v \in VerifyOutcomes : VerifyCaptchaSolution(v)

InitCaptcha ==
    /\ InitCommon
    /\ subscriptions = {}
    /\ date_range = [u \in Users |-> 1]

NextCaptcha ==
    \/ Tick(BOOKING_SESSION_TIMEOUT_SECONDS)
    \/ CaptchaNext

\* The solver is a loop of synchronous code: it keeps running.
SpecCaptcha == InitCaptcha /\ [][NextCaptcha]_vars /\ WF_vars(SolveCaptchaChallenge)

\* ------------------------------------------------------------------------
\* notification_service: notify_users_of_appointment, one step per message
\* ------------------------------------------------------------------------
after_send_error_abort(todo, u) == {}

\* Lines 143-144: the except clause of a send logs, and the for loop goes on
\* with the users that are left.
after_send_error(todo, u) == todo \ {u}

\* Lines 86-123: the call, for the users of one date range.
NotifyUsersOfAppointment(user_ids) ==
    /\ nt.pc \in {"idle", "done"}
    /\ nt' = [NoNotify EXCEPT !.pc = "send", !.group = user_ids, !.todo = user_ids]
    /\ UNCHANGED <<captcha, now, repoVars, convVars, bot_data, subVars, pollVars>>

\* Lines 126-144: one pass of the first loop. A user in the queue is skipped;
\* a send that returns leaves its message id, one that raises is logged.
SendInitialMessage(u, tg) ==
    /\ nt.pc = "send"
    /\ u \in nt.todo
    /\ IF is_user_in_queue(active_booking_users, u, now)
       THEN nt' = [nt EXCEPT !.todo = @ \ {u}]
       ELSE IF tg = "ok"
       THEN nt' = [nt EXCEPT !.todo = @ \ {u}, !.message_ids = @ \cup {u}]
       ELSE nt' = [nt EXCEPT !.todo = after_send_error(@, u),
                             !.send_failed = @ \cup {u}]
    /\ active_booking_users' = is_user_in_queue_abu(active_booking_users, u, now)
    /\ UNCHANGED <<captcha, now, repoVars, convVars, bot_data, subVars, captcha_token,
                   token_expires_at, stats, consecutive_failures, p,
                   appointment_log, notices, last_query, fail_run>>

\* Lines 146-225: the first loop is done; the slots are fetched, the final
\* message and keyboard built, the token stored in bot_data.
FetchSlots(slots) ==
    /\ nt.pc = "send"
    /\ nt.todo = {}
    /\ nt' = [nt EXCEPT !.pc = "edit", !.todo = nt.message_ids, !.slots = slots]
    /\ bot_data' = captcha_token
    /\ UNCHANGED <<captcha, now, repoVars, convVars, subVars, pollVars>>

\* Lines 227-242: one pass of the second loop, over message_ids; an edit that
\* raises is logged.
EditMessage(u, tg) ==
    /\ nt.pc = "edit"
    /\ u \in nt.todo
    /\ nt' = [nt EXCEPT !.todo = @ \ {u},
                        !.edits[u] = @ + 1,
                        !.edit_failed = IF tg = "ok" THEN @ ELSE @ \cup {u}]
    /\ UNCHANGED <<captcha, now, repoVars, convVars, bot_data, subVars, pollVars>>

\* After line 242: the second loop is done, the call returns.
NotifyReturn ==
    /\ nt.pc = "edit"
    /\ nt.todo = {}
    /\ nt' = [nt EXCEPT !.pc = "done"]
    /\ UNCHANGED <<captcha, now, repoVars, convVars, bot_data, subVars, pollVars>>

\* ------------------------------------------------------------------------
\* booking_api: book_appointment_complete, one step per remote call
\* ------------------------------------------------------------------------
\* reserve_appointment: an HTTP error or exception (None), a response without
\* processId or authKey (None), a response with both but without timestamp or
\* scope, with both and a scope that is not a dict, or a complete response.
ReserveOutcomes == {"error", "no_ids", "no_scope", "bad_scope", "ok"}

\* update_appointment and preconfirm_appointment: an HTTP error or exception
\* (None), an empty JSON body (falsy), or a response.
StepOutcomes == {"error", "empty", "ok"}

\* Lines 281-289: what follows reserve_appointment.
after_reserve(rsv) ==
    IF rsv \in {"error", "no_ids"} THEN "failure"
    ELSE IF rsv = "no_scope" THEN "exception"
    ELSE "update"

after_update_always(upd) == "preconfirm"

\* Lines 292-298: what follows update_appointment ("raise": scope.get on a
\* scope that is not a dict, before the request is sent).
after_update(upd) ==
    IF upd = "ok" THEN "preconfirm"
    ELSE IF upd = "raise" THEN "exception"
    ELSE "failure"

\* Lines 301-310: the result of book_appointment_complete.
after_preconfirm(pre) == IF pre = "ok" THEN "success" ELSE "failure"

\* The handler after a step of the booking: the next call, or the report of
\* the outcome to the user.
Booked(hh, next) ==
    IF next \in {"update", "preconfirm"} THEN [hh EXCEPT !.pc = next]
    ELSE [hh EXCEPT !.pc = "report", !.result = next]

reserve_token_shared(row, shared) == shared

\* confirm_booking, lines 433 and 446: the captcha_token argument of
\* book_appointment_complete, which passes it to reserve_appointment, is the
\* field of the session row read at line 414, not context.bot_data.
reserve_token(row, shared) == row.captcha_token

BookReserve(o) ==
    /\ h.pc = "reserve"
    /\ h' = Booked([h EXCEPT !.calls = Append(@, "reserve"), !.rsv = o,
                             !.token = reserve_token(h.row, bot_data)],
                   after_reserve(o))
    /\ UNCHANGED <<captcha, nt, now, repoVars, conv, bot_data, subVars, pollVars>>

BookUpdate(o) ==
    /\ h.pc = "update"
    /\ (h.rsv = "bad_scope") <=> (o = "raise")
    /\ h' = Booked([h EXCEPT !.calls = Append(@, "update"), !.upd = o],
                   after_update(o))
    /\ UNCHANGED <<captcha, nt, now, repoVars, conv, bot_data, subVars, pollVars>>

BookPreconfirm(o) ==
    /\ h.pc = "preconfirm"
    /\ h' = Booked([h EXCEPT !.calls = Append(@, "preconfirm"), !.pre = o],
                   after_preconfirm(o))
    /\ UNCHANGED <<captcha, nt, now, repoVars, conv, bot_data, subVars, pollVars>>

\* ------------------------------------------------------------------------
\* commands/booking.py: the booking conversation
\* ------------------------------------------------------------------------
\* Updates are handled one at a time: a handler starts when none is in flight.
HandlerFree == h.pc = "idle"

\* The handler record a cancel leaves: the user and the session row found.
Cancelled(u, r) == [Idle EXCEPT !.user = u, !.row = r, !.ret = "cancelled"]

\* get_available_slots for the chosen date: None or no offices, offices
\* without appointments for the office, or appointments.
SlotOutcomes == {"none", "no_appointments", "appointments"}

\* What the user sends as a name: the text, its number of words and its
\* length; as an e-mail address: the text and whether email_pattern matches.
NameInputs == {[text |-> "John Doe", parts |-> 2, chars |-> 8],
               [text |-> "John", parts |-> 1, chars |-> 4],
               [text |-> "A B", parts |-> 2, chars |-> 3]}
EmailInputs == {[text |-> "a@b.de", matches |-> TRUE],
                [text |-> "a@b", matches |-> FALSE]}

\* A call of the Telegram API (edit_message_text) returns or raises. It is an
\* input where the code catches what it raises (the try block of
\* confirm_booking); the other handlers have no except clause around their
\* Telegram calls and are modelled with calls that return.
TelegramOutcomes == {"ok", "raise"}

\* The handler record a rejected name or e-mail leaves: the user is asked
\* again (reply_text at lines 293-296, 300-302, 343-346).
Reprompted(u, r) == [Idle EXCEPT !.user = u, !.row = r, !.ret = "reprompt"]

valid_email_any(email) == TRUE

valid_name_any(name) == TRUE

\* name_received, lines 290-303: at least two words and four characters.
valid_name(name) == ~(name.parts < 2 \/ name.chars < 4)

\* email_received, lines 342-348: re.match(email_pattern, email).
valid_email(email) == email.matches

create_booking_session(tbl, u, tok, t) ==
    create_session(tbl, u, "SELECTING_TIME", tok, t + BOOKING_SESSION_TIMEOUT_SECONDS)

get_booking_session(tbl, u) == get_session(tbl, u)

has_appointments_any(slots) == slots # "none"

\* start_booking, lines 142-162: the slot fetch returned offices, and
\* appointments for the office asked for.
has_appointments(slots) == slots = "appointments"

\* start_booking (entry point of the conversation), lines 110-216.
StartBooking(u, slots) ==
    /\ HandlerFree
    /\ conv[u] = "END"
    /\ IF bot_data = None \/ ~has_appointments(slots)
       THEN UNCHANGED <<booking_sessions, conv>>
       ELSE /\ booking_sessions' =
                    create_booking_session(booking_sessions, u, bot_data, now)
            /\ conv' = [conv EXCEPT ![u] = "SELECTING_TIME"]
    /\ h' = Idle
    /\ UNCHANGED <<captcha, nt, now, last, bot_data, subVars, pollVars>>

\* time_selected, lines 219-280.
TimeSelected(u, data, ts) ==
    /\ HandlerFree
    /\ conv[u] = "SELECTING_TIME"
    /\ IF data = "cancel_booking"
       THEN /\ booking_sessions' = delete_session(booking_sessions, u)
            /\ conv' = [conv EXCEPT ![u] = "END"]
       ELSE IF get_booking_session(booking_sessions, u) = NoRow
       THEN /\ conv' = [conv EXCEPT ![u] = "END"]
            /\ UNCHANGED booking_sessions
       ELSE /\ booking_sessions' =
                    update_session(booking_sessions, u, "ASKING_NAME", ts,
                                   NoneStr, NoneStr)
            /\ conv' = [conv EXCEPT ![u] = "ASKING_NAME"]
    /\ h' = IF data = "cancel_booking"
            THEN Cancelled(u, get_booking_session(booking_sessions, u))
            ELSE Idle
    /\ UNCHANGED <<captcha, nt, now, last, bot_data, subVars, pollVars>>

\* name_received, lines 283-329.
NameReceived(u, name) ==
    /\ HandlerFree
    /\ conv[u] = "ASKING_NAME"
    /\ IF ~valid_name(name)
       THEN /\ h' = Reprompted(u, get_booking_session(booking_sessions, u))
            /\ UNCHANGED <<booking_sessions, conv>>
       ELSE /\ booking_sessions' =
                    update_session(booking_sessions, u, "ASKING_EMAIL", None,
                                   name.text, NoneStr)
            /\ conv' = [conv EXCEPT ![u] = "ASKING_EMAIL"]
            /\ h' = Idle
    /\ UNCHANGED <<captcha, nt, now, last, bot_data, subVars, pollVars>>

\* email_received, lines 332-387; datetime.fromtimestamp(None) raises, and a
\* handler that raises leaves the conversation where it was.
EmailReceived(u, email) ==
    /\ HandlerFree
    /\ conv[u] = "ASKING_EMAIL"
    /\ IF ~valid_email(email)
       THEN /\ h' = Reprompted(u, get_booking_session(booking_sessions, u))
            /\ UNCHANGED <<booking_sessions, conv>>
       ELSE /\ booking_sessions' =
                    update_session(booking_sessions, u, "CONFIRMING", None,
                                   NoneStr, email.text)
            /\ LET r == get_booking_session(booking_sessions', u)
               IN  conv' = [conv EXCEPT ![u] =
                                IF r = NoRow THEN "END"
                                ELSE IF r.timestamp = None THEN @
                                ELSE "CONFIRMING"]
            /\ h' = Idle
    /\ UNCHANGED <<captcha, nt, now, last, bot_data, subVars, pollVars>>

\* cancel_booking_button, lines 547-577 (states ASKING_NAME, ASKING_EMAIL).
CancelBookingButton(u) ==
    /\ HandlerFree
    /\ conv[u] \in {"ASKING_NAME", "ASKING_EMAIL"}
    /\ booking_sessions' = delete_session(booking_sessions, u)
    /\ conv' = [conv EXCEPT ![u] = "END"]
    /\ h' = Cancelled(u, get_booking_session(booking_sessions, u))
    /\ UNCHANGED <<captcha, nt, now, last, bot_data, subVars, pollVars>>

\* cancel_booking_conversation, lines 580-600 (fallback: a command in any
\* state of the conversation).
CancelBookingConversation(u) ==
    /\ HandlerFree
    /\ conv[u] # "END"
    /\ booking_sessions' = delete_session(booking_sessions, u)
    /\ conv' = [conv EXCEPT ![u] = "END"]
    /\ h' = Cancelled(u, get_booking_session(booking_sessions, u))
    /\ UNCHANGED <<captcha, nt, now, last, bot_data, subVars, pollVars>>

\* confirm_booking, lines 390-418: cancel, or read the session.
ConfirmBegin(u, data) ==
    /\ HandlerFree
    /\ conv[u] = "CONFIRMING"
    /\ IF data = "cancel_booking"
       THEN /\ booking_sessions' = delete_session(booking_sessions, u)
            /\ conv' = [conv EXCEPT ![u] = "END"]
            /\ h' = Cancelled(u, get_booking_session(booking_sessions, u))
       ELSE IF get_booking_session(booking_sessions, u) = NoRow
       THEN /\ conv' = [conv EXCEPT ![u] = "END"]
            /\ h' = Idle
            /\ UNCHANGED booking_sessions
       ELSE /\ h' = [Idle EXCEPT !.pc = "processing", !.user = u,
                                 !.row = get_booking_session(booking_sessions, u)]
            /\ UNCHANGED <<booking_sessions, conv>>
    /\ UNCHANGED <<captcha, nt, now, last, bot_data, subVars, pollVars>>

\* confirm_booking, lines 420-438: track_event and the "Processing" edit are
\* awaited; an edit that raises ends the handler before the booking.
ConfirmProcessing(tg) ==
    /\ h.pc = "processing"
    /\ h' = IF tg = "ok" THEN [h EXCEPT !.pc = "reserve"]
            ELSE [h EXCEPT !.pc = "idle", !.ret = "raised"]
    /\ UNCHANGED <<captcha, nt, now, repoVars, conv, bot_data, subVars, pollVars>>

\* Whether confirm_booking reaches line 541: the edit of the try block (success
\* or failure message) returns, or it raises and the edit of the except block
\* returns; after an exception of the booking only the except block's edit
\* is made.
ReportReturns(result, tg, tgx) ==
    IF result = "exception" THEN tgx = "ok" ELSE (tg = "ok" \/ tgx = "ok")

\* confirm_booking, lines 456-538: the message the user ends up with. The edit
\* of the try block carries "Booking Successful!" under a truthy result and
\* "Booking Failed" otherwise; if it raises, or the booking raised, the edit of
\* the except block carries "An error occurred while booking"; if that raises
\* too, the user keeps the "Processing" message.
told_message(result, tg, tgx) ==
    IF result # "exception" /\ tg = "ok"
    THEN (IF result = "success" THEN "success" ELSE "failure")
    ELSE IF tgx = "ok" THEN "error" ELSE "none"

\* confirm_booking, lines 451-544: tell the user, delete the session, END.
ConfirmReport(tg, tgx) ==
    /\ h.pc = "report"
    /\ IF ReportReturns(h.result, tg, tgx)
       THEN /\ booking_sessions' = delete_session(booking_sessions, h.user)
            /\ conv' = [conv EXCEPT ![h.user] = "END"]
            /\ h' = [h EXCEPT !.pc = "idle", !.ret = "END",
                               !.told = told_message(h.result, tg, tgx)]
       ELSE /\ h' = [h EXCEPT !.pc = "idle", !.ret = "raised",
                               !.told = told_message(h.result, tg, tgx)]
            /\ UNCHANGED <<booking_sessions, conv>>
    /\ UNCHANGED <<captcha, nt, now, last, bot_data, subVars, pollVars>>

\* button_callback, lines 466-488: a time_ or cancel_booking callback that the
\* conversation does not take (the user has no conversation) is answered as
\* interrupted, and the session deleted, if is_user_in_queue says so; otherwise
\* no branch of button_callback matches it. The handler record keeps the user,
\* the session row there was and which of the two happened.
ButtonCallback(u, data) ==
    /\ HandlerFree
    /\ conv[u] = "END"
    /\ data \in {"time", "cancel_booking"}
    /\ booking_sessions' =
            IF is_user_in_queue(active_booking_users, u, now)
            THEN delete_session(booking_sessions, u)
            ELSE booking_sessions
    /\ active_booking_users' = is_user_in_queue_abu(active_booking_users, u, now)
    /\ h' = [Idle EXCEPT !.user = u,
                         !.row = get_booking_session(booking_sessions, u),
                         !.ret = IF is_user_in_queue(active_booking_users, u, now)
                                 THEN "interrupted" ELSE "unmatched"]
    /\ UNCHANGED <<captcha, nt, now, last, conv, bot_data, subVars, captcha_token,
                   token_expires_at, stats, consecutive_failures, p,
                   appointment_log, notices, last_query, fail_run>>

\* The process is restarted: what it keeps in memory (the conversations, the
\* handler in flight, bot_data, the queue registry, the poller's token,
\* counters and position) is as at start-up; the tables stay.
Restart ==
    /\ conv' = [u \in Users |-> "END"]
    /\ h' = Idle
    /\ bot_data' = None
    /\ active_booking_users' = [u \in Users |-> None]
    /\ captcha_token' = None
    /\ token_expires_at' = 0
    /\ stats' = [total_checks |-> 0, successful_checks |-> 0, failed_checks |-> 0]
    /\ consecutive_failures' = 0
    /\ p' = [pc |-> "start", todo |-> {}, queries |-> 0]
    /\ fail_run' = RunReset
    /\ UNCHANGED <<captcha, nt, now, repoVars, subVars, appointment_log, notices, last_query>>

ConvNext ==
    \/ \E u \in Users, sl \in SlotOutcomes : StartBooking(u, sl)
    \/ \E u \in Users, d \in {"time", "cancel_booking"}, ts \in Timestamps :
            TimeSelected(u, d, ts)
    \/ \E u \in Users, nm \in NameInputs : NameReceived(u, nm)
    \/ \E u \in Users, em \in EmailInputs : EmailReceived(u, em)
    \/ \E u \in Users : CancelBookingButton(u)
    \/ \E u \in Users : CancelBookingConversation(u)
    \/ \E u \in Users, d \in {"confirm_booking", "cancel_booking"} : ConfirmBegin(u, d)
    \/ \E tg \in TelegramOutcomes : ConfirmProcessing(tg)
    \/ \E o \in ReserveOutcomes : BookReserve(o)
    \/ \E o \in StepOutcomes \cup {"raise"} : BookUpdate(o)
    \/ \E o \in StepOutcomes : BookPreconfirm(o)
    \/ \E tg \in TelegramOutcomes, tgx \in TelegramOutcomes : ConfirmReport(tg, tgx)
    \/ \E u \in Users, d \in {"time", "cancel_booking"} : ButtonCallback(u, d)

\* The state one polling cycle after start-up: the cycle found availability,
\* notified both subscribers and left its token in bot_data; both have since
\* unsubscribed, so the cycles that follow find no subscription.
AfterFirstNotice ==
    /\ captcha = NoCaptcha
    /\ nt = NoNotify
    /\ now = 0
    /\ booking_sessions = {}
    /\ last = NoCall
    /\ conv = [u \in Users |-> "END"]
    /\ h = Idle
    /\ bot_data = 0
    /\ captcha_token = 0
    /\ token_expires_at = TOKEN_LIFETIME
    /\ stats = [total_checks |-> 1, successful_checks |-> 1, failed_checks |-> 0]
    /\ consecutive_failures = 0
    /\ p = [pc |-> "sleep", todo |-> {}, queries |-> 0]
    /\ appointment_log = 1
    /\ active_booking_users = [u \in Users |-> None]
    /\ notices = {[user |-> u, live |-> FALSE] : u \in Users}
    /\ last_query = [at |-> 0, token |-> 0, cycle |-> 1, sent |-> Users, edited |-> Users]
    /\ fail_run = [n |-> 0, alerted |-> FALSE]
    /\ date_range = [u \in Users |-> 1]

InitBooking ==
    \/ InitRepo
    \/ AfterFirstNotice /\ subscriptions = {}

NextBooking ==
    \/ Tick(BOOKING_SESSION_TIMEOUT_SECONDS)
    \/ ConvNext
    \/ Restart
    \/ PollCycleStart
    \/ PollSleep

SpecBooking == InitBooking /\ [][NextBooking]_vars

\* ------------------------------------------------------------------------
\* C2: book_appointment_complete makes its calls in the order reserve, update,
\* preconfirm, each at most once; update is called only after reserve returned
\* both a processId and an authKey, preconfirm only after update returned a
\* response, and once update has failed no preconfirm follows.
\* ------------------------------------------------------------------------
BookingOrder == <<"reserve", "update", "preconfirm">>

C2_ReserveUpdatePreconfirm ==
    /\ Len(h.calls) <= 3
    /\ \A i \in 1..Len(h.calls) : h.calls[i] = BookingOrder[i]
    /\ Len(h.calls) >= 2 => h.rsv \in {"ok", "bad_scope"}
    /\ Len(h.calls) = 3 => h.upd = "ok"
    /\ (h.pc \in {"report", "idle"} /\ h.rsv = "ok" /\ h.upd \in {"error", "empty"}) =>
            (h.calls = <<"reserve", "update">> /\ h.result = "failure")

\* reserve succeeded, update returned None, the booking is over: two calls.
C2_Witness ==
    /\ h.pc = "report"
    /\ h.rsv = "ok"
    /\ h.upd = "error"
    /\ h.calls = <<"reserve", "update">>
    /\ h.result = "failure"

\* ------------------------------------------------------------------------
\* C3: once confirm_booking has run the booking for a user who confirmed in
\* CONFIRMING and has finished, that user has no session row, whatever the
\* outcome of the booking (success, failure at a step, exception).
\* ------------------------------------------------------------------------
C3_SessionDeletedAfterConfirm ==
    (h.pc = "idle" /\ h.result \in {"success", "failure", "exception"}) =>
        get_session(booking_sessions, h.user) = NoRow

SessionProgress ==
    \A u \in Users :
        LET r == get_session(booking_sessions, u)
            r2 == get_session(booking_sessions', u)
        IN  (r # NoRow /\ r2 # NoRow /\ r2.state # r.state) =>
                \/ /\ r.state = "SELECTING_TIME" /\ r2.state = "ASKING_NAME"
                   /\ \E ts \in Timestamps : TimeSelected(u, "time", ts)
                \/ /\ r.state = "ASKING_NAME" /\ r2.state = "ASKING_EMAIL"
                   /\ \E nm \in NameInputs :
                        nm.parts >= 2 /\ nm.chars >= 4 /\ NameReceived(u, nm)
                \/ /\ r.state = "ASKING_EMAIL" /\ r2.state = "CONFIRMING"
                   /\ \E em \in EmailInputs : em.matches /\ EmailReceived(u, em)
                \/ /\ r2.state = "SELECTING_TIME"
                   /\ r2 = BookingSession(u, "SELECTING_TIME", bot_data,
                                          now + BOOKING_SESSION_TIMEOUT_SECONDS)
                   /\ \E sl \in SlotOutcomes : StartBooking(u, sl)

C13_SessionProgress == [][SessionProgress]_vars

\* A session that went through all the steps.
C13_Witness ==
    \E u \in Users :
        LET r == get_session(booking_sessions, u)
        IN  /\ r # NoRow
            /\ r.state = "CONFIRMING"
            /\ r.timestamp # None
            /\ r.name # NoneStr
            /\ r.email # NoneStr

\* ------------------------------------------------------------------------
\* C14: after a restart, a time_ or cancel_booking callback of a user whose
\* session row is live (and whose conversation is not tracked) deletes the
\* orphaned session.
\* ------------------------------------------------------------------------
OrphanDeleted ==
    \A u \in Users, d \in {"time", "cancel_booking"} :
        (ButtonCallback(u, d) /\ is_user_in_booking(booking_sessions, u, now)) =>
            (h'.ret = "interrupted" /\ get_session(booking_sessions', u) = NoRow)

C14_OrphanDeleted == [][OrphanDeleted]_vars

\* ------------------------------------------------------------------------
\* C6: a conversation step that reads a session whose expires_at has passed
\* finds it absent and deletes it: time_selected does not advance on it, and
\* confirm_booking issues no reserve call for it.
\* ------------------------------------------------------------------------
Expired(r) == r # NoRow /\ now > r.expires_at

ExpiredSessionIsAbsent ==
    /\ \A u \in Users, ts \in Timestamps :
            (TimeSelected(u, "time", ts) /\ Expired(get_session(booking_sessions, u))) =>
                (conv'[u] = "END" /\ get_session(booking_sessions', u) = NoRow)
    /\ \A u \in Users :
            (ConfirmBegin(u, "confirm_booking")
                    /\ Expired(get_session(booking_sessions, u))) =>
                (h'.pc = "idle" /\ get_session(booking_sessions', u) = NoRow)
    /\ \A o \in ReserveOutcomes : BookReserve(o) => ~Expired(h.row)

C6_ExpiredSessionIsAbsent == [][ExpiredSessionIsAbsent]_vars

\* ------------------------------------------------------------------------
\* The poller next to users who start bookings from its notices
\* ------------------------------------------------------------------------
InitNotify ==
    /\ AfterFirstNotice
    /\ subscriptions = {[user |-> u, service |-> 100, office |-> 200] : u \in Users}

NextNotify ==
    \/ Tick(BOOKING_SESSION_TIMEOUT_SECONDS)
    \/ PollNext
    \/ \E u \in Users, sl \in SlotOutcomes : StartBooking(u, sl)
    \/ \E u \in Users : CancelBookingConversation(u)

SpecNotify == InitNotify /\ [][NextNotify]_vars

\* ------------------------------------------------------------------------
\* C4: no initial availability notice is sent to a user who, at the moment of
\* sending, has a session created by create_booking_session that is neither
\* deleted nor expired.
\* ------------------------------------------------------------------------
C4_NoNoticeDuringBooking == \A n \in notices : ~n.live

\* ------------------------------------------------------------------------
\* C5: no available-days query is issued with a credential obtained at time T
\* at or after T + 280 s (a credential is named by the time it was obtained).
\* ------------------------------------------------------------------------
C5_CredentialFresh ==
    last_query.at # None =>
        (last_query.token # None /\ last_query.at < last_query.token + TOKEN_LIFETIME)

\* ------------------------------------------------------------------------
\* C8: a check whose available-days query returned None raises failed_checks
\* and the consecutive-failure counter by one and is not counted as a
\* successful check.
\* ------------------------------------------------------------------------
NoneIsFailedCheck ==
    \A t \in p.todo :
        PollCheck(t, "none") =>
            /\ stats'.failed_checks = stats.failed_checks + 1
            /\ consecutive_failures' = consecutive_failures + 1
            /\ stats'.successful_checks = stats.successful_checks

C8_NoneIsFailedCheck == [][NoneIsFailedCheck]_vars

\* ------------------------------------------------------------------------
\* C9: a check whose available-days query returned a dict with errorCode
\* raises failed_checks by one and the consecutive-failure counter by one,
\* writes no Appointment Log row, sends no notice and is not counted as a
\* successful ("no availability") check.
\* ------------------------------------------------------------------------
ErrorCodeIsFailedCheck ==
    \A t \in p.todo :
        PollCheck(t, "error") =>
            /\ stats'.failed_checks = stats.failed_checks + 1
            /\ consecutive_failures' = consecutive_failures + 1
            /\ appointment_log' = appointment_log
            /\ notices' = notices
            /\ stats'.successful_checks = stats.successful_checks

C9_ErrorCodeIsFailedCheck == [][ErrorCodeIsFailedCheck]_vars

\* ------------------------------------------------------------------------
\* C10: once five checks have failed in a row with no successful check between
\* them (refresh failure, errorCode payload or exception), a health alert has
\* been emitted for that run of failures.
\* ------------------------------------------------------------------------
C10_AlertAfterFiveFailures ==
    fail_run.n >= MAX_CONSECUTIVE_FAILURES => fail_run.alerted

\* ------------------------------------------------------------------------
\* C15: for every target classified as "availability found" (a dict with a
\* non-empty availableDays, or a non-empty list) the check appends exactly one
\* Appointment Log row, and every user of the target's date-range group who is
\* not in a booking is sent one initial message, which is edited once.
\* ------------------------------------------------------------------------
AvailabilityHandled ==
    \A t \in p.todo, d \in {"days", "list"} :
        PollCheck(t, d) =>
            /\ appointment_log' = appointment_log + 1
            /\ \A u \in t.users :
                    ~is_user_in_booking(booking_sessions, u, now) =>
                        (u \in last_query'.sent /\ u \in last_query'.edited)

C15_AvailabilityHandled == [][AvailabilityHandled]_vars

\* ------------------------------------------------------------------------
\* C16: within one cycle the credential is refreshed at most once and only
\* before the first target check; every query of the cycle uses the same
\* credential; no target check triggers a refresh.
\* ------------------------------------------------------------------------
CredentialPerCycle ==
    \* the credential changes only in the refresh step, which is entered only
    \* from the start of a cycle and left for the checks or the sleep
    /\ (captcha_token' # captcha_token \/ token_expires_at' # token_expires_at) =>
            (p.pc = "refresh" /\ p'.pc \in {"check", "sleep"})
    /\ (p'.pc = "refresh" /\ p.pc # "refresh") => p.pc = "start"
    /\ (\E o \in RefreshOutcomes : PollRefresh(o)) => p'.pc \in {"check", "sleep"}
    \* a target check leaves the credential alone and queries with it, as did
    \* the earlier queries of the same cycle
    /\ \A t \in p.todo, d \in DataKinds :
            PollCheck(t, d) =>
                /\ captcha_token' = captcha_token
                /\ token_expires_at' = token_expires_at
                /\ last_query'.token = captcha_token
                /\ last_query.cycle = stats.total_checks =>
                        last_query'.token = last_query.token

C16_CredentialPerCycle == [][CredentialPerCycle]_vars

\* Two targets were queried in the first cycle, the second one 900 s or more
\* after the refresh.
C16_Witness ==
    /\ stats.total_checks = 1
    /\ stats.successful_checks = 2
    /\ p.pc = "check"
    /\ p.todo = {}
    /\ last_query.cycle = 1
    /\ last_query.at > captcha_token
    /\ last_query.token = captcha_token

\* ------------------------------------------------------------------------
\* C17: if the credential is expired at the refresh step and the refresh
\* fails, no target is checked in that cycle, failed_checks and the
\* consecutive-failure counter each go up by exactly one, the loop sleeps and
\* starts a new cycle in which the refresh is attempted again.
\* ------------------------------------------------------------------------
RefreshFailure ==
    /\ \A o \in {"none", "raise"} :
            (PollRefresh(o) /\ now >= token_expires_at) =>
                /\ stats'.failed_checks = stats.failed_checks + 1
                /\ consecutive_failures' = consecutive_failures + 1
                /\ stats'.successful_checks = stats.successful_checks
                /\ last_query.cycle # stats.total_checks
                /\ last_query' = last_query
                /\ p' = [pc |-> "sleep", todo |-> {}, queries |-> 0]
                /\ token_expires_at' = token_expires_at
    \* the checks of a cycle are entered only from a refresh step that leaves
    \* an unexpired credential, and queries are made only in the checks
    /\ (p'.pc = "check" /\ p.pc # "check") =>
            (p.pc = "refresh" /\ now < token_expires_at')
    /\ last_query' # last_query => p.pc = "check"

\* The loop sleeps after a cycle of a non-empty snapshot in which no target
\* was queried: its refresh failed.
RefreshFailed ==
    /\ p.pc = "sleep"
    /\ subscriptions # {}
    /\ last_query.cycle # stats.total_checks

C17_RefreshFailure ==
    /\ [][RefreshFailure]_vars
    /\ [](RefreshFailed => now >= token_expires_at)
    /\ \A c \in 1..(MaxCycles - 1) :
            (RefreshFailed /\ stats.total_checks = c) ~>
                (p.pc = "refresh" /\ stats.total_checks = c + 1 /\ now >= token_expires_at)

\* The second cycle is at its refresh step after the refresh of the first
\* one failed: one failed check counted, nothing queried.
C17_Witness ==
    /\ p.pc = "refresh"
    /\ stats = [total_checks |-> 2, successful_checks |-> 0, failed_checks |-> 1]
    /\ consecutive_failures = 1
    /\ last_query.at = None
    /\ now >= token_expires_at

\* ------------------------------------------------------------------------
\* C18: start_booking creates a session only if the slot fetch returned at
\* least one appointment for the office and a credential is present;
\* otherwise no session row is written and the conversation ends.
\* ------------------------------------------------------------------------
SessionOnlyWithSlots ==
    \A u \in Users, sl \in SlotOutcomes :
        StartBooking(u, sl) =>
            IF sl = "appointments" /\ bot_data # None
            THEN /\ get_session(booking_sessions', u) =
                        BookingSession(u, "SELECTING_TIME", bot_data,
                                       now + BOOKING_SESSION_TIMEOUT_SECONDS)
                 /\ conv'[u] = "SELECTING_TIME"
            ELSE /\ booking_sessions' = booking_sessions
                 /\ conv'[u] = "END"

C18_SessionOnlyWithSlots == [][SessionOnlyWithSlots]_vars

\* A user is choosing a time in a session that start_booking has just created
\* with the credential of bot_data.
C18_Witness ==
    \E u \in Users :
        /\ conv[u] = "SELECTING_TIME"
        /\ get_session(booking_sessions, u) =
                BookingSession(u, "SELECTING_TIME", bot_data,
                               now + BOOKING_SESSION_TIMEOUT_SECONDS)
        /\ bot_data # None
        /\ h = Idle

\* ------------------------------------------------------------------------
\* C19: start_booking refuses to create a session when the shared credential
\* is stale: obtained at time T (a credential is named by the time it was
\* obtained) with the current time at or after T + 280 s.
\* ------------------------------------------------------------------------
StaleCredentialRefused ==
    \A u \in Users, sl \in SlotOutcomes :
        (StartBooking(u, sl) /\ bot_data # None /\ now >= bot_data + TOKEN_LIFETIME) =>
            /\ booking_sessions' = booking_sessions
            /\ conv'[u] = "END"

C19_StaleCredentialRefused == [][StaleCredentialRefused]_vars

\* ------------------------------------------------------------------------
\* C20: after any sequence of add_subscription, remove_subscription and
\* delete_all_user_subscriptions calls there is at most one subscription row
\* per (user, service): a user never holds subscriptions to two offices for
\* the same service at the same time.
\* ------------------------------------------------------------------------
C20_OneSubscriptionPerService ==
    \A r1, r2 \in subscriptions :
        (r1.user = r2.user /\ r1.service = r2.service) => r1 = r2

\* ------------------------------------------------------------------------
\* C21: for every set of subscription rows, in whatever order they are read,
\* get_all_service_subscriptions returns a mapping whose keys are exactly the
\* (service, office) pairs present and whose value for each pair lists exactly
\* the users subscribed to that pair, each once.
\* ------------------------------------------------------------------------
C21_GroupedByServiceOffice ==
    /\ \A rows \in Orders(subscriptions) :
            LET grouped == group_by_service_office(rows, <<>>)
            IN  /\ DOMAIN grouped = {<<r.service, r.office>> : r \in subscriptions}
                /\ \A k \in DOMAIN grouped :
                        LET users == {r.user : r \in {x \in subscriptions :
                                        x.service = k[1] /\ x.office = k[2]}}
                        IN  /\ {grouped[k][i] : i \in DOMAIN grouped[k]} = users
                            /\ Len(grouped[k]) = Cardinality(users)
    /\ LET service_subs == get_all_service_subscriptions(subscriptions)
       IN  /\ DOMAIN service_subs = {<<r.service, r.office>> : r \in subscriptions}
           /\ \A k \in DOMAIN service_subs :
                    service_subs[k] = {r.user : r \in {x \in subscriptions :
                                        x.service = k[1] /\ x.office = k[2]}}

\* The table of the repository's test, with the users of the model: two users
\* on (100, 200) and one of them on (101, 201) as well.
C21_Witness ==
    /\ subscriptions = {[user |-> 1, service |-> 100, office |-> 200],
                        [user |-> 2, service |-> 100, office |-> 200],
                        [user |-> 2, service |-> 101, office |-> 201]}
    /\ get_all_service_subscriptions(subscriptions) =
            (<<100, 200>> :> {1, 2}) @@ (<<101, 201>> :> {2})

\* ------------------------------------------------------------------------
\* C22: in a polling cycle that reaches the target checks without error, the
\* number of available-days queries issued for a (service, office) pair is
\* the number of distinct date ranges among the pair's subscribers, not the
\* number of subscribers, and every subscriber belongs to exactly one of the
\* groups. (The tables of this specification hold one pair, so the queries of
\* a cycle are the queries of the pair.)
\* ------------------------------------------------------------------------
SubscribersOf(k) ==
    {r.user : r \in {x \in subscriptions : x.service = k[1] /\ x.office = k[2]}}

Pairs == {<<r.service, r.office>> : r \in subscriptions}

C22_OneQueryPerDateRange ==
    p.pc = "check" =>
        \A k \in Pairs :
            LET left == {t \in p.todo : t.service = k[1] /\ t.office = k[2]}
                ranges == {date_range[u] : u \in SubscribersOf(k)}
            IN  \* the queries made and those still to make are one per range
                /\ Cardinality(Pairs) = 1 =>
                        p.queries + Cardinality(left) = Cardinality(ranges)
                /\ p.todo = {} => p.queries = Cardinality(ranges)
                \* the groups partition the subscribers
                /\ \A u \in SubscribersOf(k) :
                        Cardinality({t \in Targets(get_all_service_subscriptions(subscriptions),
                                                    date_range) :
                                        /\ t.service = k[1] /\ t.office = k[2]
                                        /\ u \in t.users}) = 1

\* Two subscribers of one pair with the same range: the checks of the cycle
\* are done after one query.
C22_Witness ==
    /\ p.pc = "check"
    /\ p.todo = {}
    /\ p.queries = 1
    /\ Cardinality(subscriptions) = 2
    /\ date_range[1] = date_range[2]

\* ------------------------------------------------------------------------
\* C23: in a polling cycle whose subscription snapshot is empty no remote call
\* is made: the credential is not refreshed and no available-days query is
\* issued; the credential, the failure counters and the Appointment Log are
\* left unchanged; the loop sleeps and starts the next cycle.
\* ------------------------------------------------------------------------
EmptySnapshotSkips ==
    /\ (PollCycleStart /\ subscriptions = {}) =>
            /\ p'.pc = "sleep"
            /\ UNCHANGED <<captcha_token, token_expires_at, consecutive_failures,
                           appointment_log, last_query, fail_run, notices>>
            /\ stats'.failed_checks = stats.failed_checks
            /\ stats'.successful_checks = stats.successful_checks
    \* with nobody subscribed the loop is never at a refresh or a check, and
    \* nothing it does touches the credential, the counters or the log
    /\ subscriptions = {} =>
            /\ p'.pc \in {"start", "sleep"}
            /\ UNCHANGED <<captcha_token, token_expires_at, consecutive_failures,
                           appointment_log, last_query>>

C23_EmptySnapshotSkips ==
    /\ [][EmptySnapshotSkips]_vars
    /\ \A c \in 1..(MaxCycles - 1) :
            (subscriptions = {} /\ p.pc = "sleep" /\ stats.total_checks = c) ~>
                (p.pc = "sleep" /\ stats.total_checks = c + 1)

\* The second cycle of a bot nobody is subscribed to is asleep: no credential
\* was ever obtained, nothing queried, nothing counted as failed.
C23_Witness ==
    /\ subscriptions = {}
    /\ p.pc = "sleep"
    /\ stats = [total_checks |-> 2, successful_checks |-> 0, failed_checks |-> 0]
    /\ captcha_token = None
    /\ last_query.at = None
    /\ now > 0

\* ------------------------------------------------------------------------
\* C24: a session's expires_at is set once, at creation, to the creation time
\* plus 900 s; no later conversation step or update_session call changes it.
\* ------------------------------------------------------------------------
ExpiryFixed ==
    \A u \in Users :
        LET r1 == get_session(booking_sessions, u)
            r2 == get_session(booking_sessions', u)
            created == /\ \E sl \in SlotOutcomes : StartBooking(u, sl)
                       /\ r2 = BookingSession(u, "SELECTING_TIME", bot_data,
                                              now + BOOKING_SESSION_TIMEOUT_SECONDS)
        IN  /\ (r1 = NoRow /\ r2 # NoRow) => created
            /\ (r1 # NoRow /\ r2 # NoRow /\ r2.expires_at # r1.expires_at) => created

C24_ExpiryFixed == [][ExpiryFixed]_vars

\* A session that was updated twice, the second time after time had passed,
\* still expires 900 s after its creation at time 0.
C24_Witness ==
    \E u \in Users :
        LET r == get_session(booking_sessions, u)
        IN  /\ r # NoRow
            /\ r.state = "ASKING_EMAIL"
            /\ r.name # NoneStr
            /\ now > 0
            /\ r.expires_at = BOOKING_SESSION_TIMEOUT_SECONDS

\* ------------------------------------------------------------------------
\* C25: when name_received gets an invalid name (fewer than two words or
\* fewer than four characters) or email_received an e-mail the pattern does
\* not match, the user is asked again, the conversation stays in ASKING_NAME
\* resp. ASKING_EMAIL and the persisted session is left unchanged.
\* ------------------------------------------------------------------------
InvalidInputKeepsSession ==
    \A u \in Users :
        /\ \A nm \in NameInputs :
                (NameReceived(u, nm) /\ (nm.parts < 2 \/ nm.chars < 4)) =>
                    /\ conv'[u] = "ASKING_NAME"
                    /\ booking_sessions' = booking_sessions
                    /\ h'.ret = "reprompt"
        /\ \A em \in EmailInputs :
                (EmailReceived(u, em) /\ ~em.matches) =>
                    /\ conv'[u] = "ASKING_EMAIL"
                    /\ booking_sessions' = booking_sessions
                    /\ h'.ret = "reprompt"

C25_InvalidInputKeepsSession == [][InvalidInputKeepsSession]_vars

\* A user was asked again for the e-mail address: the session is the one
\* found, still waiting for the address, the name in place.
C25_Witness ==
    /\ h.ret = "reprompt"
    /\ conv[h.user] = "ASKING_EMAIL"
    /\ h.row # NoRow
    /\ h.row = get_session(booking_sessions, h.user)
    /\ h.row.state = "ASKING_EMAIL"
    /\ h.row.email = NoneStr
    /\ h.row.name # NoneStr

\* ------------------------------------------------------------------------
\* C26: solve_captcha_challenge always terminates: if some n in
\* [0, maxnumber) has sha256(salt + str(n)) equal to the challenge it returns
\* a solution whose number is the smallest such n; if there is none it
\* returns None after trying every n below maxnumber, without raising.
\* ------------------------------------------------------------------------
Solutions == {n \in 0..(captcha.maxnumber - 1) : n \in captcha.matches}

C26_SolverCorrect ==
    /\ [](captcha.pc = "verify" =>
            /\ captcha.number \in Solutions
            /\ \A n \in Solutions : captcha.number <= n)
    /\ [](captcha.failed = "solve" =>
            /\ Solutions = {}
            /\ captcha.number = captcha.maxnumber
            /\ captcha.token = None
            /\ ~captcha.raised)
    /\ [](captcha.pc = "solve" => captcha.number \in 0..captcha.maxnumber)
    /\ (captcha.pc = "solve" /\ Solutions # {}) ~> (captcha.pc = "verify")
    /\ (captcha.pc = "solve" /\ Solutions = {}) ~> (captcha.failed = "solve")

\* The solver returned the number 2 of a challenge that 2 and 3 solve, with
\* maxnumber 3.
C26_Witness ==
    /\ captcha.pc = "verify"
    /\ captcha.maxnumber = 3
    /\ captcha.matches = {2, 3}
    /\ captcha.number = 2

\* ------------------------------------------------------------------------
\* C27: get_fresh_captcha_token runs get-challenge, solve, verify in that
\* order, stops at the first stage that fails without calling the later
\* ones, and returns None and never raises for every failure outcome,
\* including a verify response with meta.success and data.valid but no token.
\* ------------------------------------------------------------------------
C27_FreshTokenNeverRaises ==
    /\ \E n \in 0..3 :
            captcha.calls = SubSeq(<<"get_captcha_challenge", "solve_captcha_challenge",
                                     "verify_captcha_solution">>, 1, n)
    /\ captcha.failed = "challenge" => captcha.calls = <<"get_captcha_challenge">>
    /\ captcha.failed = "solve" => Len(captcha.calls) = 2
    /\ captcha.failed # "none" => (captcha.pc = "done" /\ captcha.token = None)
    /\ ~captcha.raised

\* ------------------------------------------------------------------------
\* The poller with its credential refresh spelled out, next to the booking
\* conversation. Line 145 calls get_fresh_captcha_token, a plain function, in
\* the coroutine itself: until it returns, the event loop runs nothing else.
\* ------------------------------------------------------------------------
LoopBlocked == captcha.pc \in {"challenge", "solve", "verify"}

\* The challenges drawn in this specification.
RefreshChallenges == {NoChallenge, [maxnumber |-> 2, matches |-> {1}]}

\* Lines 142-145: the token is expired, get_fresh_captcha_token is called.
RefreshBegin ==
    /\ p.pc = "refresh"
    /\ now >= token_expires_at
    /\ captcha.cycle # stats.total_checks
    /\ GetFreshCaptchaToken

\* Lines 145-187: the call has returned or raised; awaiting what it returned
\* is the outcome of the refresh.
RefreshEnd(outcome) ==
    /\ captcha.pc = "done"
    /\ captcha.cycle = stats.total_checks
    /\ now >= token_expires_at
    /\ captcha.raised => outcome = "raise"
    /\ (~captcha.raised /\ captcha.token = None) => outcome \in {"none", "raise"}
    /\ captcha.token # None => outcome \in {"token", "raise"}
    /\ PollRefresh(outcome)

\* Line 142: the token is not expired.
RefreshSkip ==
    /\ now < token_expires_at
    /\ PollRefresh("token")

\* The updates the dispatcher hands to the conversation, from the subscribers.
HandlerStep ==
    /\ ~LoopBlocked
    /\ \E u \in {r.user : r \in subscriptions} :
            \/ \E sl \in SlotOutcomes : StartBooking(u, sl)
            \/ CancelBookingConversation(u)

InitRefresh ==
    /\ InitCommon
    /\ subscriptions = {[user |-> 1, service |-> 100, office |-> 200]}
    /\ date_range = [u \in Users |-> 1]

NextRefresh ==
    \/ Tick(BOOKING_SESSION_TIMEOUT_SECONDS)
    \/ PollCycleStart
    \/ RefreshBegin
    \/ \E ch \in RefreshChallenges : GetCaptchaChallenge(ch)
    \/ SolveCaptchaChallenge
    \/ \E v \in VerifyOutcomes : VerifyCaptchaSolution(v)
    \/ \E o \in RefreshOutcomes : RefreshEnd(o)
    \/ RefreshSkip
    \/ \E t \in p.todo, d \in DataKinds : PollCheck(t, d)
    \/ PollCycleEnd
    \/ PollSleep
    \/ HandlerStep

SpecRefresh == InitRefresh /\ [][NextRefresh]_vars

\* ------------------------------------------------------------------------
\* C28: while a proof-of-work solve started by the poller's credential
\* refresh is in flight, the handlers of the booking conversation can still
\* take steps (an update for a user is handled, whatever the solver does).
\* ------------------------------------------------------------------------
C28_HandlersRunDuringSolve ==
    (captcha.pc = "solve" /\ h.pc = "idle") => ENABLED HandlerStep


\* ------------------------------------------------------------------------
\* C29: once confirm_booking has reported a booking, the user was told
\* "booking successful" if and only if reserve, update and preconfirm all
\* succeeded, and a booking that was reserved but not completed was reported
\* to the user as a failure (the failure or the error message).
\* ------------------------------------------------------------------------
Reported == h.pc = "idle" /\ h.result # "none"

AllThreeSucceeded == h.rsv = "ok" /\ h.upd = "ok" /\ h.pre = "ok"

C29_SuccessToldIffBooked ==
    Reported =>
        /\ (h.told = "success") <=> AllThreeSucceeded
        /\ (h.rsv \in {"ok", "bad_scope"} /\ ~AllThreeSucceeded) =>
                h.told \in {"failure", "error"}

\* The half the code keeps: "booking successful" is sent only after all three
\* steps succeeded, and a partial completion is never reported as a success.
C29_SuccessOnlyIfBooked ==
    Reported => (h.told = "success" => AllThreeSucceeded)

\* ------------------------------------------------------------------------
\* C30: a check of one target takes only that target off the cycle's list,
\* whatever the check or its notification does: the other targets of the
\* cycle are still to be checked in that cycle.
\* ------------------------------------------------------------------------
TargetChecked == p.pc = "check" /\ p.todo # {} /\ p' # p

C30_OtherTargetsStillChecked ==
    [][TargetChecked => \E t \in p.todo : p'.todo = p.todo \ {t}]_vars

\* What the code keeps: a check that does not raise leaves the other targets
\* on the list (a step that counts no failure, or the errorCode branch, which
\* counts a failure and a success without raising).
C30_OtherTargetsUnlessRaised ==
    [][(TargetChecked /\ p'.pc = "check") =>
            \E t \in p.todo : p'.todo = p.todo \ {t}]_vars

\* ------------------------------------------------------------------------
\* C31: the module's captcha_token and token_expires_at are replaced together:
\* in every state the stored expiry is the expiry of the stored token (none
\* for no token, the time it was obtained plus its lifetime otherwise), and no
\* step changes the token without the expiry.
\* ------------------------------------------------------------------------
ExpiryOf(tok) == IF tok = None THEN 0 ELSE tok + TOKEN_LIFETIME

C31_TokenAndExpiryTogether ==
    /\ [](token_expires_at = ExpiryOf(captcha_token))
    /\ [][captcha_token' # captcha_token =>
                token_expires_at' # token_expires_at]_vars

\* What the code keeps: a stored token that is not None has its own expiry.
C31_StoredTokenHasItsExpiry ==
    captcha_token # None => token_expires_at = ExpiryOf(captcha_token)

\* ------------------------------------------------------------------------
\* A booking conversation of user 1 next to the poller, which refreshes the
\* shared credential while the conversation goes on
\* ------------------------------------------------------------------------
InitConfirm ==
    /\ AfterFirstNotice
    /\ subscriptions = {[user |-> 1, service |-> 100, office |-> 200]}

ConfirmConversation ==
    \/ StartBooking(1, "appointments")
    \/ \E ts \in Timestamps : TimeSelected(1, "time", ts)
    \/ \E nm \in {n \in NameInputs : valid_name(n)} : NameReceived(1, nm)
    \/ \E em \in {e \in EmailInputs : valid_email(e)} : EmailReceived(1, em)
    \/ ConfirmBegin(1, "confirm_booking")
    \/ ConfirmProcessing("ok")
    \/ \E o \in ReserveOutcomes : BookReserve(o)
    \/ \E o \in StepOutcomes \cup {"raise"} : BookUpdate(o)
    \/ \E o \in StepOutcomes : BookPreconfirm(o)
    \/ ConfirmReport("ok", "ok")

NextConfirm ==
    \/ Tick(TOKEN_LIFETIME)
    \/ PollCycleStart
    \/ PollRefresh("token")
    \/ \E t \in p.todo : PollCheck(t, "days")
    \/ PollCycleEnd
    \/ PollSleep
    \/ ConfirmConversation

SpecConfirm == InitConfirm /\ [][NextConfirm]_vars

\* ------------------------------------------------------------------------
\* C32: the credential passed to reserve is the one the session was created
\* with: no step other than the creation of a session changes the credential
\* of a user's stored row, and reserve is passed the credential of the row
\* confirm_booking read, whatever the shared credential has become since.
\* ------------------------------------------------------------------------
SessionCreated(u) == conv[u] = "END" /\ conv'[u] = "SELECTING_TIME"

SessionCredentialKept ==
    \A u \in Users :
        (/\ get_session(booking_sessions, u) # NoRow
         /\ get_session(booking_sessions', u) # NoRow
         /\ ~SessionCreated(u)) =>
            get_session(booking_sessions', u).captcha_token =
                get_session(booking_sessions, u).captcha_token

ReserveCalled == h.pc = "reserve" /\ h'.calls = <<"reserve">>

C32_ReserveUsesSessionCredential ==
    /\ [][SessionCredentialKept]_vars
    /\ [][(h.pc = "idle" /\ h'.pc = "processing") =>
                h'.row = get_session(booking_sessions, h'.user)]_vars
    /\ [][ReserveCalled => h'.token = h.row.captcha_token]_vars

\* reserve was called with the session's credential (obtained at time 0) after
\* the poller had replaced the shared credential by a later one.
C32_Witness ==
    /\ h.calls # <<>>
    /\ h.token = 0
    /\ captcha_token > 0
    /\ bot_data > 0

\* ------------------------------------------------------------------------
\* C33: the start of a polling cycle sweeps the expired sessions exactly when
\* total_checks, after its increment, is a multiple of 5, whether or not
\* anybody is subscribed: such a cycle leaves no row whose expiry has passed,
\* any other cycle leaves the table as it is; and from every count a multiple
\* of 5 is reached within five further cycles.
\* ------------------------------------------------------------------------
CycleStarted == p.pc = "start" /\ stats'.total_checks = stats.total_checks + 1

SweepEveryFifth ==
    CycleStarted =>
        IF stats'.total_checks % SWEEP_EVERY = 0
        THEN booking_sessions' = {r \in booking_sessions : ~(r.expires_at < now)}
        ELSE booking_sessions' = booking_sessions

InitNotifyUsers ==
    /\ AfterFirstNotice
    /\ subscriptions = {[user |-> u, service |-> 100, office |-> 200] : u \in Users}

NextNotifyUsers ==
    \/ \E g \in (SUBSET Users) \ {{}} : NotifyUsersOfAppointment(g)
    \/ \E u \in Users, tg \in TelegramOutcomes : SendInitialMessage(u, tg)
    \/ \E sl \in SlotOutcomes : FetchSlots(sl)
    \/ \E u \in Users, tg \in TelegramOutcomes : EditMessage(u, tg)
    \/ NotifyReturn

SpecNotifyUsers == InitNotifyUsers /\ [][NextNotifyUsers]_vars

\* ------------------------------------------------------------------------
\* C34: in notify_users_of_appointment a send or an edit that fails for one
\* user does not stop the sends and edits for the others: when the call
\* returns, every user of the group not in the queue was sent to, a user
\* whose send failed got no edit, and every user whose send succeeded got
\* exactly one edit attempt.
\* ------------------------------------------------------------------------
C34_PerRecipientFailure ==
    /\ nt.message_ids \cap nt.send_failed = {}
    /\ \A u \in Users :
            /\ nt.edits[u] <= 1
            /\ nt.edits[u] = 1 => u \in nt.message_ids
    /\ nt.pc \in {"edit", "done"} =>
            nt.message_ids \cup nt.send_failed =
                {u \in nt.group : ~is_user_in_queue(active_booking_users, u, now)}
    /\ nt.pc = "done" =>
            \A u \in Users : nt.edits[u] = (IF u \in nt.message_ids THEN 1 ELSE 0)

\* The send to one user failed and the edit for the other failed; the call
\* returned with the second user's one edit attempt made.
C34_Witness ==
    /\ nt.pc = "done"
    /\ nt.group = Users
    /\ Cardinality(nt.send_failed) = 1
    /\ nt.edit_failed = nt.message_ids
    /\ Cardinality(nt.message_ids) = 1

\* ------------------------------------------------------------------------
\* The poller next to users who subscribe and unsubscribe
\* ------------------------------------------------------------------------
\* check_and_notify is suspended, and a handler can run: in asyncio.sleep
\* between two cycles, and in the send_message and edit_message_text calls of
\* a notification made in the cycle in progress.
PollerSuspended ==
    \/ p.pc \in {"start", "sleep"}
    \/ /\ p.pc = "check"
       /\ last_query.cycle = stats.total_checks
       /\ last_query.sent # {}

SubscriptionButton ==
    /\ PollerSuspended
    /\ \E u \in Users :
            \/ SelectOffice(u, 100, 200)
            \/ Unsub(u, 100)
            \/ UnsubAllConfirm(u)

\* Both users are subscribed to the same service and office, each with a date
\* range of their own: a cycle has two targets.
InitUnsub ==
    /\ InitCommon
    /\ subscriptions = {[user |-> u, service |-> 100, office |-> 200] : u \in Users}
    /\ date_range = [u \in Users |-> u]

NextUnsub ==
    \/ PollNext
    \/ SubscriptionButton

SpecUnsub == InitUnsub /\ [][NextUnsub]_vars

\* ------------------------------------------------------------------------
\* C35: an availability notice for a (service, office) pair goes only to
\* users who hold a subscription to that pair at the moment it is sent.
\* ------------------------------------------------------------------------
Subscribed(u, s, o) == [user |-> u, service |-> s, office |-> o] \in subscriptions

NoticeOnlyToSubscribers ==
    \A t \in p.todo \ p'.todo :
        (p.pc = "check" /\ appointment_log' = appointment_log + 1) =>
            \A u \in last_query'.sent : Subscribed(u, t.service, t.office)

C35_NoticeOnlyToSubscribers == [][NoticeOnlyToSubscribers]_vars

\* What the code keeps: a notice goes only to users who were subscribed to
\* the pair when the cycle read its snapshot, the users of the target.
C35_NoticeOnlyToSnapshot ==
    [][\A t \in p.todo \ p'.todo :
            (p.pc = "check" /\ appointment_log' = appointment_log + 1) =>
                last_query'.sent \subseteq t.users]_vars

\* ------------------------------------------------------------------------
\* C36: when reserve is called for a user, the user's session row exists at
\* that moment, is in state CONFIRMING and has its timestamp, name and e-mail
\* set, and these are the values the call is made with.
\* ------------------------------------------------------------------------
Complete(r) ==
    /\ r # NoRow
    /\ r.state = "CONFIRMING"
    /\ r.timestamp # None
    /\ r.name # NoneStr
    /\ r.email # NoneStr

C36_ReserveOnlyForCompleteSession ==
    [][ReserveCalled =>
            /\ Complete(get_session(booking_sessions, h.user))
            /\ h.row = get_session(booking_sessions, h.user)]_vars

\* What the code keeps: the row confirm_booking read, whose fields the call
\* is made with, was in state CONFIRMING with timestamp, name and e-mail set.
C36_ReserveWithCompleteFields == [][ReserveCalled => Complete(h.row)]_vars

\* ------------------------------------------------------------------------
\* C37: the check of a target, one available-days query, increments exactly
\* one of successful_checks and failed_checks, by one.
\* ------------------------------------------------------------------------
CountedOnce ==
    \/ /\ stats'.successful_checks = stats.successful_checks + 1
       /\ stats'.failed_checks = stats.failed_checks
    \/ /\ stats'.successful_checks = stats.successful_checks
       /\ stats'.failed_checks = stats.failed_checks + 1

C37_EachCheckCountedOnce == [][TargetChecked => CountedOnce]_vars

\* What the code keeps: every check is counted, and a check that counts no
\* failure counts one success.
C37_EachCheckCounted ==
    [][TargetChecked =>
            /\ stats'.successful_checks + stats'.failed_checks >
                    stats.successful_checks + stats.failed_checks
            /\ stats'.failed_checks = stats.failed_checks => CountedOnce]_vars

\* ------------------------------------------------------------------------
\* C38: the three expiry tests of BookingSessionRepository agree at every
\* instant: is_user_in_booking(u) is True exactly when u's row is among
\* get_all_active_sessions(), and cleanup_expired_sessions removes a row
\* exactly when is_user_in_booking reports its user as not in booking.
\* ------------------------------------------------------------------------
C38_ExpiryTestsAgree ==
    /\ \A u \in Users :
            is_user_in_booking(booking_sessions, u, now) <=>
                (\E r \in get_all_active_sessions(booking_sessions, now) :
                        r.user_id = u)
    /\ \A r \in booking_sessions :
            (r \notin cleanup_expired_sessions(booking_sessions, now)) <=>
                ~is_user_in_booking(booking_sessions, r.user_id, now)

\* What the code keeps: the sweep and is_user_in_booking agree at every
\* instant, and all three agree at every instant other than expires_at.
C38_AgreeOffTheInstant ==
    /\ \A r \in booking_sessions :
            (r \notin cleanup_expired_sessions(booking_sessions, now)) <=>
                ~is_user_in_booking(booking_sessions, r.user_id, now)
    /\ \A r \in booking_sessions :
            now # r.expires_at =>
                (is_user_in_booking(booking_sessions, r.user_id, now) <=>
                    r \in get_all_active_sessions(booking_sessions, now))

\* ------------------------------------------------------------------------
\* C39: for a user with a conversation state and a session row, the row's
\* stored state is the state the conversation waits in; and no conversation
\* step moves a user's conversation to a further state while the user has no
\* session row.
\* ------------------------------------------------------------------------
ConversationAgreesWithRow ==
    \A u \in Users :
        (conv[u] \in States /\ get_session(booking_sessions, u) # NoRow) =>
            get_session(booking_sessions, u).state = conv[u]

AdvancedWithoutRow(u) ==
    /\ conv[u] \in States
    /\ conv'[u] \in States
    /\ conv'[u] # conv[u]
    /\ get_session(booking_sessions, u) = NoRow

C39_ConversationMatchesSession ==
    /\ []ConversationAgreesWithRow
    /\ [][\A u \in Users : ~AdvancedWithoutRow(u)]_vars

\* What the code keeps: while a user has both, the two states agree.
C39_StatesAgree == ConversationAgreesWithRow

=============================================================================
